---- MODULE Spec2Model ----
(***************************************************************************)
(* Model of src/ciis.py, the Cyberbro Streamlit dashboard: the analyze ->  *)
(* classify -> persist -> render script and its CSV-backed history.        *)
(*                                                                         *)
(* Strings are sequences of one-character strings, so that str.strip,      *)
(* str.split, the f-string score formatting and pandas' CSV type inference *)
(* are computed and not assumed.  The history file is kept as the grid of  *)
(* cell texts a CSV reader tokenises it into; the texts used here hold no  *)
(* delimiter, quote or line break inside a cell, so the tokenisation       *)
(* itself is not modelled.  Polarity is an integer number of hundredths,   *)
(* a toxicity score an integer number of thousandths.                      *)
(***************************************************************************)
EXTENDS Integers, Sequences, FiniteSets, TLC

\* ------------------------------------------------------------------ bounds
\* Largest number of rows the history may hold before a run is started.
MaxRows == 4

\* ------------------------------------------------------- program constants
\* `sentiment > 0.2`, in hundredths.
PositiveThreshold == 20
\* `sentiment < -0.2`, in hundredths.
NegativeThreshold == -20
\* `toxic_score > 0.5`, in thousandths.
ToxicThreshold == 500

Sessions == {1, 2}

\* ----------------------------------------------------------------- strings
Digits == <<"0", "1", "2", "3", "4", "5", "6", "7", "8", "9">>

Range(f) == {f[x] : x \in DOMAIN f}

IsDigit(c) == c \in Range(Digits)

DigitChar(d) == Digits[d + 1]

\* The characters str.strip() removes (those that occur in the inputs).
Whitespace == {" ", "\n", "\t", "\r"}

RECURSIVE LStrip(_)
LStrip(s) ==
  IF s # <<>> /\ Head(s) \in Whitespace THEN LStrip(Tail(s)) ELSE s

RECURSIVE RStrip(_)
RStrip(s) ==
  IF s # <<>> /\ s[Len(s)] \in Whitespace
  THEN RStrip(SubSeq(s, 1, Len(s) - 1))
  ELSE s

\* str.strip()
Strip(s) == LStrip(RStrip(s))

\* str.split("\n"): every separator ends a piece, empty pieces are kept.
RECURSIVE SplitLines(_)
SplitLines(s) ==
  IF \E i \in 1..Len(s) : s[i] = "\n"
  THEN LET i == CHOOSE j \in 1..Len(s) :
                  s[j] = "\n" /\ \A k \in 1..(j - 1) : s[k] # "\n"
       IN <<SubSeq(s, 1, i - 1)>> \o SplitLines(SubSeq(s, i + 1, Len(s)))
  ELSE <<s>>

RECURSIVE IntToChars(_)
IntToChars(n) ==
  IF n < 10 THEN <<DigitChar(n)>>
  ELSE IntToChars(n \div 10) \o <<DigitChar(n % 10)>>

\* f"{toxic_score:.2f}" of a score given in thousandths.  The scores used
\* never lie halfway between two hundredths, where the result would depend
\* on the binary value of the float.
Fmt2(score) ==
  LET h == (score + 5) \div 10
  IN IntToChars(h \div 100) \o <<".">>
       \o <<DigitChar((h \div 10) % 10), DigitChar(h % 10)>>

Positive == <<"P", "o", "s", "i", "t", "i", "v", "e">>
Negative == <<"N", "e", "g", "a", "t", "i", "v", "e">>
Neutral == <<"N", "e", "u", "t", "r", "a", "l">>

\* ----------------------------------------------------------- pandas values
\* A value held in a DataFrame cell or a Python list: k is its type.
Str(s) == [k |-> "str", v |-> s]
NaN == [k |-> "nan", v |-> <<>>]
IntVal(s) == [k |-> "int", v |-> s]
FloatVal(s) == [k |-> "float", v |-> s]

\* Cell texts read_csv takes for a missing value (keep_default_na), as far
\* as they can be written with the characters of the inputs.
NaValues ==
  {<<>>, <<"N", "A">>, <<"N", "a", "N">>, <<"n", "a", "n">>,
   <<"N", "/", "A">>, <<"n", "/", "a">>, <<"n", "u", "l", "l">>,
   <<"N", "U", "L", "L">>, <<"N", "o", "n", "e">>}

IsIntText(s) == s # <<>> /\ \A i \in 1..Len(s) : IsDigit(s[i])

DotAt(s) == CHOOSE i \in 1..Len(s) : s[i] = "."

\* digits "." digits
IsFloatText(s) ==
  /\ Cardinality({i \in 1..Len(s) : s[i] = "."}) = 1
  /\ IsIntText(SubSeq(s, 1, DotAt(s) - 1))
  /\ IsIntText(SubSeq(s, DotAt(s) + 1, Len(s)))

RECURSIVE StripLeadingZeros(_)
StripLeadingZeros(s) ==
  IF Len(s) > 1 /\ Head(s) = "0" THEN StripLeadingZeros(Tail(s)) ELSE s

RECURSIVE StripTrailingZeros(_)
StripTrailingZeros(s) ==
  IF Len(s) > 1 /\ s[Len(s)] = "0"
  THEN StripTrailingZeros(SubSeq(s, 1, Len(s) - 1))
  ELSE s

\* str(int(s))
CanonInt(s) == StripLeadingZeros(s)

\* repr(float(s)) for the short decimal texts used here.
CanonFloat(s) ==
  IF IsIntText(s) THEN CanonInt(s) \o <<".", "0">>
  ELSE CanonInt(SubSeq(s, 1, DotAt(s) - 1)) \o <<".">>
         \o StripTrailingZeros(SubSeq(s, DotAt(s) + 1, Len(s)))

\* read_csv's conversion of one column, given the texts of its cells: the
\* result for the cell whose text is c.
ConvertCell(c, col) ==
  LET present == {x \in Range(col) : x \notin NaValues}
  IN IF c \in NaValues THEN NaN
     ELSE IF \A x \in present : IsIntText(x)
     THEN IF present = Range(col) THEN IntVal(CanonInt(c))
          ELSE FloatVal(CanonFloat(c))
     ELSE IF \A x \in present : IsIntText(x) \/ IsFloatText(x)
     THEN FloatVal(CanonFloat(c))
     ELSE Str(c)

\* pd.read_csv on a grid of cell texts: a sequence of rows of values.
ReadCsvRows(rows) ==
  [i \in 1..Len(rows) |->
     [j \in 1..Len(rows[i]) |->
        ConvertCell(rows[i][j], [r \in 1..Len(rows) |-> rows[r][j]])]]

\* DataFrame.to_csv's text of one value (na_rep is the empty text).
CellText(x) == IF x.k = "nan" THEN <<>> ELSE x.v

\* DataFrame.to_csv(index=False): the grid of cell texts written.
ToCsvRows(rows) ==
  [i \in 1..Len(rows) |-> [j \in 1..Len(rows[i]) |-> CellText(rows[i][j])]]

\* ------------------------------------------------------------------ state
VARIABLES
  history_csv,       \* HISTORY_FILE: whether it exists, and its rows of cell texts
  option,            \* per session: the radio's value
  user_input,        \* per session: the text area's content
  uploaded_file,     \* per session: the file held by the uploader
  trigger,           \* per session: the event the running script run answers
  pc,                \* per session: the position of the script run
  posts,             \* per session: `posts`
  results,           \* per session: `results`
  sentiment_counts,  \* per session: `sentiment_counts`
  toxic_counts,      \* per session: `toxic_counts`
  sentiment,         \* per session: `sentiment`, the last polarity
  predictions,       \* per session: `predictions`, the last classifier output
  toxic_score,       \* per session: `toxic_score`
  df_history,        \* per session: save_history's `df_history`
  df_all,            \* per session: save_history's `df_all`, its return value
  page               \* per session: the elements the page shows

vars ==
  <<history_csv, option, user_input, uploaded_file, trigger, pc, posts,
    results, sentiment_counts, toxic_counts, sentiment, predictions,
    toxic_score, df_history, df_all, page>>

widgets == <<option, user_input, uploaded_file>>

locals ==
  <<posts, results, sentiment_counts, toxic_counts, sentiment, predictions,
    toxic_score, df_history, df_all>>

\* The columns save_history writes and load_history creates.
HistoryColumns == <<"Post", "Sentiment", "Toxicity">>

NoFile == [exists |-> FALSE, rows |-> <<>>]

NoUpload == [present |-> FALSE, columns |-> <<>>, rows |-> <<>>]

Upload(columns, rows) == [present |-> TRUE, columns |-> columns, rows |-> rows]

NoFrame == [loaded |-> FALSE, rows |-> <<>>]

Frame(rows) == [loaded |-> TRUE, rows |-> rows]

ZeroSentimentCounts == [Positive |-> 0, Negative |-> 0, Neutral |-> 0]

ZeroToxicCounts == [Toxic |-> 0, Safe |-> 0]

\* load_history(): the file read with read_csv, or an empty table.
load_history(file) ==
  IF file.exists THEN Frame(ReadCsvRows(file.rows)) ELSE Frame(<<>>)

\* pd.concat([df_history, df_new], ignore_index=True)
Concat(df_history_rows, df_new_rows) == df_history_rows \o df_new_rows

\* df_all.to_csv(HISTORY_FILE, index=False)
WriteHistory(rows) == [exists |-> TRUE, rows |-> ToCsvRows(rows)]

\* pd.DataFrame(results, columns=[...]): one row of str values per result.
results_df(res) ==
  [i \in 1..Len(res) |->
     <<res[i].post, Str(res[i].sentiment_label), Str(res[i].toxicity)>>]

\* --------------------------------------------------------------- tab1 input
ColumnIndex(columns, name) == CHOOSE j \in 1..Len(columns) : columns[j] = name

RECURSIVE DropNa(_)
DropNa(col) ==
  IF col = <<>> THEN <<>>
  ELSE IF Head(col).k = "nan" THEN DropNa(Tail(col))
  ELSE <<Head(col)>> \o DropNa(Tail(col))

\* df["post"].dropna().tolist()
PostColumn(upl) ==
  LET df == ReadCsvRows(upl.rows)
      j == ColumnIndex(upl.columns, "post")
  IN DropNa([i \in 1..Len(df) |-> df[i][j]])

\* user_input.strip().split("\n")
TextPosts(text) ==
  LET lines == SplitLines(Strip(text))
  IN [i \in 1..Len(lines) |-> Str(lines[i])]

\* Mutant of ExtractPosts: the text is tested without strip().
ExtractPostsUnstripped(opt, button, text, upl) ==
  IF opt = "text"
  THEN IF button /\ text # <<>> THEN TextPosts(text) ELSE <<>>
  ELSE IF upl.present /\ "post" \in Range(upl.columns)
       THEN PostColumn(upl)
       ELSE <<>>

\* Mutant of ExtractPosts: an upload without a post column falls back to
\* its first column.
ExtractPostsFirstColumn(opt, button, text, upl) ==
  IF opt = "text"
  THEN IF button /\ Strip(text) # <<>> THEN TextPosts(text) ELSE <<>>
  ELSE IF upl.present
       THEN LET df == ReadCsvRows(upl.rows)
            IN DropNa([i \in 1..Len(df) |-> df[i][1]])
       ELSE <<>>

\* `posts` when line 112 is reached.
ExtractPosts(opt, button, text, upl) ==
  IF opt = "text"
  THEN IF button /\ Strip(text) # <<>> THEN TextPosts(text) ELSE <<>>
  ELSE IF upl.present /\ "post" \in Range(upl.columns)
       THEN PostColumn(upl)
       ELSE <<>>

\* What lines 93-109 show: st.warning, st.error or nothing.
InputMessages(opt, button, text, upl) ==
  IF opt = "text"
  THEN IF button /\ Strip(text) = <<>> THEN {"warning"} ELSE {}
  ELSE IF upl.present /\ "post" \notin Range(upl.columns)
       THEN {"error"}
       ELSE {}

\* --------------------------------------------------------------- classifier
\* Mutant of SentimentKey: the thresholds taken as inclusive.
SentimentKeyInclusive(polarity) ==
  IF polarity >= PositiveThreshold THEN "Positive"
  ELSE IF polarity <= NegativeThreshold THEN "Negative"
  ELSE "Neutral"

\* The branch lines 120-128 take for a polarity: the key of the count that
\* is incremented.
SentimentKey(polarity) ==
  IF polarity > PositiveThreshold THEN "Positive"
  ELSE IF polarity < NegativeThreshold THEN "Negative"
  ELSE "Neutral"

\* `sentiment_label`
SentimentLabel(polarity) ==
  CASE SentimentKey(polarity) = "Positive" -> Positive
    [] SentimentKey(polarity) = "Negative" -> Negative
    [] OTHER -> Neutral

\* [p for p in predictions if p["label"] == "toxic"]
ToxicEntries(preds) == SelectSeq(preds, LAMBDA p : p.label = "toxic")

\* Mutant of ToxicScore: the score of the first entry, whatever its label.
ToxicScoreOfFirstEntry(preds) == preds[1].score

\* ...[0]["score"], where the list is not empty
ToxicScore(preds) == ToxicEntries(preds)[1].score

\* The branch lines 133-138 take for a score.
ToxicKey(score) == IF score > ToxicThreshold THEN "Toxic" ELSE "Safe"

\* `toxicity`: the f-string of the branch taken.  "U+26A0" and "U+2705"
\* stand for the warning sign and the check mark.
ToxicityLabel(score) ==
  IF ToxicKey(score) = "Toxic"
  THEN <<"U+26A0", " ", "T", "o", "x", "i", "c", " ", "(">>
         \o Fmt2(score) \o <<")">>
  ELSE <<"U+2705", " ", "S", "a", "f", "e", " ", "(">>
         \o Fmt2(score) \o <<")">>

\* What the two external models return for one post: TextBlob's polarity,
\* and either an error of the toxicity pipeline or its list of scores.
Outcome(polarity, backend_ok, preds) ==
  [polarity |-> polarity, backend_ok |-> backend_ok, predictions |-> preds]

Pred(label, score) == [label |-> label, score |-> score]

\* Mutant of InitialSentimentCounts: the counts start from the labels of
\* the persisted history.
SentimentCountsOfHistory(s) ==
  LET stored(label) ==
        Cardinality({i \in 1..Len(history_csv.rows) :
                       history_csv.rows[i][2] = label})
  IN [Positive |-> stored(Positive), Negative |-> stored(Negative),
      Neutral |-> stored(Neutral)]

\* sentiment_counts at line 114 and toxic_counts at line 115.
InitialSentimentCounts(s) == ZeroSentimentCounts

InitialToxicCounts(s) == ZeroToxicCounts

\* ----------------------------------------------------------------- actions
ClearLocals(s) ==
  /\ posts' = [posts EXCEPT ![s] = <<>>]
  /\ results' = [results EXCEPT ![s] = <<>>]
  /\ sentiment_counts' = [sentiment_counts EXCEPT ![s] = ZeroSentimentCounts]
  /\ toxic_counts' = [toxic_counts EXCEPT ![s] = ZeroToxicCounts]
  /\ sentiment' = [sentiment EXCEPT ![s] = 0]
  /\ predictions' = [predictions EXCEPT ![s] = <<>>]
  /\ toxic_score' = [toxic_score EXCEPT ![s] = 0]
  /\ df_history' = [df_history EXCEPT ![s] = NoFrame]
  /\ df_all' = [df_all EXCEPT ![s] = NoFrame]

\* The history has room for the batch the run about to start would append.
RoomFor(opt, button, text, upl) ==
  Len(history_csv.rows) + Len(ExtractPosts(opt, button, text, upl)) <= MaxRows

\* A widget event: the framework starts a script run from the top.
StartRun(s, event) ==
  /\ pc' = [pc EXCEPT ![s] = "tab1"]
  /\ trigger' = [trigger EXCEPT ![s] = event]
  /\ page' = [page EXCEPT ![s] = {}]
  /\ UNCHANGED <<history_csv, locals>>

\* The radio is switched; the input widget that is no longer drawn loses
\* its value.
SelectOption(s, o) ==
  /\ pc[s] = "idle"
  /\ o # option[s]
  /\ option' = [option EXCEPT ![s] = o]
  /\ user_input' = [user_input EXCEPT ![s] = <<>>]
  /\ uploaded_file' = [uploaded_file EXCEPT ![s] = NoUpload]
  /\ StartRun(s, "option")

\* The text area is edited.
EditText(s, text) ==
  /\ pc[s] = "idle"
  /\ option[s] = "text"
  /\ text # user_input[s]
  /\ user_input' = [user_input EXCEPT ![s] = text]
  /\ UNCHANGED <<option, uploaded_file>>
  /\ StartRun(s, "edit")

\* The Analyze Posts button is pressed: st.button is True in this run only.
ClickAnalyze(s) ==
  /\ pc[s] = "idle"
  /\ option[s] = "text"
  /\ RoomFor(option[s], TRUE, user_input[s], uploaded_file[s])
  /\ UNCHANGED widgets
  /\ StartRun(s, "analyze")

\* A file is given to the uploader, which holds it until it is replaced.
UploadFile(s, f) ==
  /\ pc[s] = "idle"
  /\ option[s] = "csv"
  /\ f # uploaded_file[s]
  /\ RoomFor(option[s], FALSE, user_input[s], f)
  /\ uploaded_file' = [uploaded_file EXCEPT ![s] = f]
  /\ UNCHANGED <<option, user_input>>
  /\ StartRun(s, "upload")

\* The download button of the History tab is pressed.
ClickDownload(s) ==
  /\ pc[s] = "idle"
  /\ "download" \in page[s]
  /\ RoomFor(option[s], FALSE, user_input[s], uploaded_file[s])
  /\ UNCHANGED widgets
  /\ StartRun(s, "download")

\* Lines 89-115: the posts are taken from the chosen input.
Tab1(s) ==
  LET button == trigger[s] = "analyze"
      extracted ==
        ExtractPosts(option[s], button, user_input[s], uploaded_file[s])
  IN /\ pc[s] = "tab1"
     /\ posts' = [posts EXCEPT ![s] = extracted]
     /\ page' = [page EXCEPT ![s] =
          @ \cup InputMessages(option[s], button, user_input[s],
                               uploaded_file[s])]
     /\ IF extracted # <<>>
        THEN /\ sentiment_counts' =
                  [sentiment_counts EXCEPT ![s] = InitialSentimentCounts(s)]
             /\ toxic_counts' =
                  [toxic_counts EXCEPT ![s] = InitialToxicCounts(s)]
             /\ pc' = [pc EXCEPT ![s] = "loop"]
        ELSE /\ pc' = [pc EXCEPT ![s] = "tab2"]
             /\ UNCHANGED <<sentiment_counts, toxic_counts>>
     /\ UNCHANGED <<history_csv, widgets, trigger, results, sentiment,
                    predictions, toxic_score, df_history, df_all>>

\* Mutant of ClassificationFails: the failing post is skipped and what was
\* classified so far is saved.
ClassificationFailsSavesPartial(s) ==
  /\ pc' = [pc EXCEPT ![s] = "save_load"]
  /\ UNCHANGED <<history_csv, widgets, trigger, locals, page>>

\* An exception leaves the loop: the script run ends there and the page
\* shows the exception.
ClassificationFails(s) ==
  /\ pc' = [pc EXCEPT ![s] = "idle"]
  /\ trigger' = [trigger EXCEPT ![s] = "none"]
  /\ page' = [page EXCEPT ![s] = @ \cup {"exception"}]
  /\ ClearLocals(s)
  /\ UNCHANGED <<history_csv, widgets>>

\* Lines 119-140 for a post both models answer for.
ClassificationSucceeds(s, post, o) ==
  LET score == ToxicScore(o.predictions)
      record == [post |-> post,
                 sentiment_label |-> SentimentLabel(o.polarity),
                 toxicity |-> ToxicityLabel(score)]
  IN /\ sentiment' = [sentiment EXCEPT ![s] = o.polarity]
     /\ sentiment_counts' =
          [sentiment_counts EXCEPT ![s][SentimentKey(o.polarity)] = @ + 1]
     /\ predictions' = [predictions EXCEPT ![s] = o.predictions]
     /\ toxic_score' = [toxic_score EXCEPT ![s] = score]
     /\ toxic_counts' = [toxic_counts EXCEPT ![s][ToxicKey(score)] = @ + 1]
     /\ results' = [results EXCEPT ![s] = Append(@, record)]
     /\ pc' = [pc EXCEPT ![s] =
          IF Len(results[s]) + 1 = Len(posts[s]) THEN "save_load" ELSE "loop"]
     /\ UNCHANGED <<history_csv, widgets, trigger, posts, df_history, df_all,
                    page>>

\* The post the loop of line 117 is at.
CurrentPost(s) == posts[s][Len(results[s]) + 1]

\* One iteration of the loop of line 117.  TextBlob refuses a post that is
\* not a str; the toxicity pipeline may fail; the list of line 132 may be
\* empty.
AnalyzePost(s, o) ==
  LET post == CurrentPost(s)
  IN /\ pc[s] = "loop"
     /\ IF /\ post.k = "str"
           /\ o.backend_ok
           /\ ToxicEntries(o.predictions) # <<>>
        THEN ClassificationSucceeds(s, post, o)
        ELSE ClassificationFails(s)

\* save_history, line 28.
SaveLoad(s) ==
  /\ pc[s] = "save_load"
  /\ df_history' = [df_history EXCEPT ![s] = load_history(history_csv)]
  /\ pc' = [pc EXCEPT ![s] = "save_write"]
  /\ UNCHANGED <<history_csv, widgets, trigger, posts, results,
                 sentiment_counts, toxic_counts, sentiment, predictions,
                 toxic_score, df_all, page>>

\* save_history, lines 29-31, and the rendering of lines 148-172.
SaveWrite(s) ==
  LET all == Concat(df_history[s].rows, results_df(results[s]))
  IN /\ pc[s] = "save_write"
     /\ df_all' = [df_all EXCEPT ![s] = Frame(all)]
     /\ history_csv' = WriteHistory(all)
     /\ page' = [page EXCEPT ![s] = @ \cup {"results"}]
     /\ pc' = [pc EXCEPT ![s] = "tab2"]
     /\ UNCHANGED <<widgets, trigger, posts, results, sentiment_counts,
                    toxic_counts, sentiment, predictions, toxic_score,
                    df_history>>

\* Lines 177-192, and the end of the script run.
Tab2(s) ==
  LET history_df == load_history(history_csv)
  IN /\ pc[s] = "tab2"
     /\ page' = [page EXCEPT ![s] =
          @ \cup (IF history_df.rows # <<>> THEN {"download"} ELSE {"info"})]
     /\ pc' = [pc EXCEPT ![s] = "idle"]
     /\ trigger' = [trigger EXCEPT ![s] = "none"]
     /\ ClearLocals(s)
     /\ UNCHANGED <<history_csv, widgets>>

\* ------------------------------------------------------------------ inputs
\* Contents of the text area: blank, a post with surrounding white space,
\* two posts around a blank line, a post read_csv takes for a missing
\* value, a post read_csv takes for a number.
TextInputs ==
  {<<>>,
   <<" ", "\n">>,
   <<" ", "a", "\n">>,
   <<"a", "\n", "\n", "a">>,
   <<"N", "A">>,
   <<"7">>}

\* Uploaded files: a post column, a post column with a missing value, no
\* column named exactly post, a post column of numbers.
Uploads ==
  {Upload(<<"post">>, << <<(<<"a">>)>> >>),
   Upload(<<"post">>, << <<(<<"N", "A">>)>>, <<(<<"a">>)>> >>),
   Upload(<<"Post">>, << <<(<<"a">>)>> >>),
   Upload(<<"post">>, << <<(<<"7">>)>> >>)}

SafePredictions == <<Pred("toxic", 100), Pred("insult", 50)>>

\* What the models may answer for a post.  TextBlob finds no polar word in
\* a text without letters or of the single token NA, so its polarity is 0;
\* for the post "a" each sentiment branch, each toxicity branch and each
\* failure is drawn.
ClassifierOutcomes(post) ==
  IF post.v = <<"a">>
  THEN {Outcome(30, TRUE, <<Pred("toxic", 900), Pred("insult", 100)>>),
        Outcome(-30, TRUE, <<Pred("insult", 990), Pred("toxic", 500)>>),
        Outcome(0, TRUE, SafePredictions),
        Outcome(0, TRUE, <<Pred("insult", 990)>>),
        Outcome(0, FALSE, <<>>)}
  ELSE {Outcome(0, TRUE, SafePredictions)}

\* The loop iteration with the answers of the two models drawn.
Classify(s) ==
  /\ pc[s] = "loop"
  /\ \E o \in ClassifierOutcomes(CurrentPost(s)) : AnalyzePost(s, o)

\* The scores the toxicity model may give the category toxic.
ToxicScores == {0, 100, 499, 500, 501, 900, 1000}

\* Lists of scores with the category toxic first, last or absent.
WidePredictions ==
  {<<Pred("toxic", t), Pred("insult", u)>> :
     t \in ToxicScores, u \in {10, 990}}
    \cup {<<Pred("severe_toxic", u), Pred("toxic", t)>> :
            t \in ToxicScores, u \in {10, 990}}
    \cup {<<Pred("severe_toxic", 990), Pred("insult", 10)>>}

\* Every polarity TextBlob can return, with every list of scores above,
\* and the failure of the toxicity pipeline.
WideOutcomes ==
  {Outcome(p, TRUE, preds) : p \in -100..100, preds \in WidePredictions}
    \cup {Outcome(0, FALSE, <<>>)}

\* The outcome drawn where two sessions run side by side.
RaceOutcomes == {Outcome(0, TRUE, SafePredictions)}

\* The texts submitted where two sessions run side by side.
RaceTexts == {<<" ", "a", "\n">>, <<"N", "A">>}

\* ----------------------------------------------------------- specification
Init ==
  /\ history_csv = NoFile
  /\ option = [s \in Sessions |-> "text"]
  /\ user_input = [s \in Sessions |-> <<>>]
  /\ uploaded_file = [s \in Sessions |-> NoUpload]
  /\ trigger = [s \in Sessions |-> "none"]
  /\ pc = [s \in Sessions |-> "idle"]
  /\ posts = [s \in Sessions |-> <<>>]
  /\ results = [s \in Sessions |-> <<>>]
  /\ sentiment_counts = [s \in Sessions |-> ZeroSentimentCounts]
  /\ toxic_counts = [s \in Sessions |-> ZeroToxicCounts]
  /\ sentiment = [s \in Sessions |-> 0]
  /\ predictions = [s \in Sessions |-> <<>>]
  /\ toxic_score = [s \in Sessions |-> 0]
  /\ df_history = [s \in Sessions |-> NoFrame]
  /\ df_all = [s \in Sessions |-> NoFrame]
  /\ page = [s \in Sessions |-> {"info"}]

\* One browser session: the tool as the specification scopes it.
Next ==
  \/ \E o \in {"text", "csv"} : SelectOption(1, o)
  \/ \E text \in TextInputs : EditText(1, text)
  \/ ClickAnalyze(1)
  \/ \E f \in Uploads : UploadFile(1, f)
  \/ ClickDownload(1)
  \/ Tab1(1)
  \/ Classify(1)
  \/ SaveLoad(1)
  \/ SaveWrite(1)
  \/ Tab2(1)

Spec == Init /\ [][Next]_vars

\* ------------------------------------------------------------------ claims
\* The texts of a batch as the analysis produced them.
BatchTexts(res) ==
  [i \in 1..Len(res) |->
     <<res[i].post.v, res[i].sentiment_label, res[i].toxicity>>]

\* The step in which session s writes the history file.
Writes(s) == pc[s] = "save_write" /\ pc'[s] = "tab2"

\* C1: save_history(B) leaves the stored history equal to the prior history
\* H followed by B: the rows of H unchanged and in order, the rows of B
\* after them in batch order, |H| + |B| rows, and the returned table the
\* one that was written.
C1_SaveAppendsBatch ==
  [][\A s \in Sessions :
       Writes(s) =>
         /\ history_csv'.rows = history_csv.rows \o BatchTexts(results[s])
         /\ Len(history_csv'.rows) = Len(history_csv.rows) + Len(results[s])
         /\ ToCsvRows(df_all'[s].rows) = history_csv'.rows]_vars

\* C2: with free-form text as the source, no post of the batch is empty
\* after trimming, blank lines between two non-blank lines included.
C2_NoBlankPost ==
  \A s \in Sessions :
    option[s] = "text" =>
      /\ \A i \in 1..Len(posts[s]) : Strip(posts[s][i].v) # <<>>
      /\ \A i \in 1..Len(results[s]) : Strip(results[s][i].post.v) # <<>>

\* C3: a run in which the classification of an item fails, whatever its
\* position, ends there: save_history is entered only with every post of a
\* non-empty batch classified, the file is not touched before that, and the
\* failing run ends showing the exception with save_history never entered.
C3_NoPartialPersistence ==
  /\ [](\A s \in Sessions :
          /\ pc[s] \in {"save_load", "save_write"} =>
               posts[s] # <<>> /\ Len(results[s]) = Len(posts[s])
          /\ pc[s] \in {"tab1", "loop"} =>
               ~df_history[s].loaded /\ ~df_all[s].loaded)
  /\ [][\A s \in Sessions :
          /\ pc[s] \in {"tab1", "loop"} => history_csv' = history_csv
          /\ pc[s] = "loop" /\ pc'[s] \notin {"loop", "save_load"} =>
               /\ pc'[s] = "idle"
               /\ "exception" \in page'[s]
               /\ "results" \notin page'[s]]_vars

\* A run of C3's case has ended: a batch of three posts was submitted, the
\* run failed, and the history written by an earlier run is still there.
C3_Witness ==
  /\ pc[1] = "idle"
  /\ "exception" \in page[1]
  /\ user_input[1] = <<"a", "\n", "\n", "a">>
  /\ Len(history_csv.rows) = 1

\* The uploader of session s holds a file without a column named post.
NoPostColumn(s) ==
  /\ option[s] = "csv"
  /\ uploaded_file[s].present
  /\ "post" \notin Range(uploaded_file[s].columns)

\* C4: with an upload that has no column named exactly post, the pipeline
\* does not run: the error is shown, no record is produced, save_history is
\* not entered and the history file does not change.
C4_MissingPostColumn ==
  /\ [](\A s \in Sessions :
          NoPostColumn(s) =>
            /\ pc[s] \in {"tab1", "tab2", "idle"}
            /\ posts[s] = <<>> /\ results[s] = <<>>
            /\ ~df_history[s].loaded
            /\ pc[s] \in {"tab2", "idle"} =>
                 "error" \in page[s] /\ "results" \notin page[s])
  /\ [][\A s \in Sessions :
          NoPostColumn(s) => history_csv' = history_csv]_vars

\* The run over an upload without a post column is over, the error is
\* shown and the history of an earlier run is in place.
C4_Witness ==
  /\ NoPostColumn(1)
  /\ pc[1] = "idle"
  /\ "error" \in page[1]
  /\ Len(history_csv.rows) = 1

\* The number of records of a batch with a sentiment label.
LabelCount(res, label) ==
  Cardinality({i \in 1..Len(res) : res[i].sentiment_label = label})

\* The number of records of a batch marked toxic, and marked safe.
MarkCount(res, mark) ==
  Cardinality({i \in 1..Len(res) : res[i].toxicity[1] = mark})

\* C7: the counts are those of the batch of this run alone: each sentiment
\* count is the number of this batch's records with that label, each
\* toxicity count likewise, and after the loop both sum to the number of
\* posts, whatever earlier runs and the history hold.
C7_CountsPerBatch ==
  \A s \in Sessions :
    /\ sentiment_counts[s].Positive = LabelCount(results[s], Positive)
    /\ sentiment_counts[s].Negative = LabelCount(results[s], Negative)
    /\ sentiment_counts[s].Neutral = LabelCount(results[s], Neutral)
    /\ toxic_counts[s].Toxic = MarkCount(results[s], "U+26A0")
    /\ toxic_counts[s].Safe = MarkCount(results[s], "U+2705")
    /\ pc[s] \in {"save_load", "save_write", "tab2"} =>
         /\ sentiment_counts[s].Positive + sentiment_counts[s].Negative
              + sentiment_counts[s].Neutral = Len(posts[s])
         /\ toxic_counts[s].Toxic + toxic_counts[s].Safe = Len(posts[s])

\* A second run, over three posts with one label each, has finished its
\* loop while the history holds the row of an earlier run.
C7_Witness ==
  /\ pc[1] = "save_load"
  /\ Len(history_csv.rows) = 1
  /\ sentiment_counts[1] = [Positive |-> 1, Negative |-> 1, Neutral |-> 1]
  /\ toxic_counts[1] = [Toxic |-> 1, Safe |-> 2]

\* The Analyze button was pressed over a text area that is blank.
BlankSubmit(s) ==
  /\ option[s] = "text"
  /\ trigger[s] = "analyze"
  /\ Strip(user_input[s]) = <<>>

\* C8: pressing the button over an empty or whitespace-only text shows the
\* warning and nothing else happens: no item is classified, save_history is
\* not entered and the history file does not change.
C8_BlankInputWarns ==
  /\ [](\A s \in Sessions :
          BlankSubmit(s) =>
            /\ pc[s] \in {"tab1", "tab2"}
            /\ posts[s] = <<>> /\ results[s] = <<>>
            /\ ~df_history[s].loaded
            /\ pc[s] = "tab2" =>
                 "warning" \in page[s] /\ "results" \notin page[s])
  /\ [][\A s \in Sessions :
          BlankSubmit(s) => history_csv' = history_csv]_vars

\* The button was pressed over a whitespace-only text, the warning is
\* shown, and the history of an earlier run is in place.
C8_Witness ==
  /\ BlankSubmit(1)
  /\ user_input[1] = <<" ", "\n">>
  /\ pc[1] = "tab2"
  /\ "warning" \in page[1]
  /\ Len(history_csv.rows) = 1

\* C10: a script run that no new submission caused (the download button,
\* the radio, an edit of the text) leaves the history file as it is, in
\* both input modes.
C10_AppendedOnce ==
  [][\A s \in Sessions :
       trigger[s] \in {"download", "option", "edit"} =>
         history_csv' = history_csv]_vars

\* ------------------------------------------- the classification of one post
\* Session 1 is at line 117 with the one post of the text " a\n".
InitClassify ==
  /\ history_csv = NoFile
  /\ option = [s \in Sessions |-> "text"]
  /\ user_input = [s \in Sessions |-> IF s = 1 THEN <<" ", "a", "\n">> ELSE <<>>]
  /\ uploaded_file = [s \in Sessions |-> NoUpload]
  /\ trigger = [s \in Sessions |-> IF s = 1 THEN "analyze" ELSE "none"]
  /\ pc = [s \in Sessions |-> IF s = 1 THEN "loop" ELSE "idle"]
  /\ posts = [s \in Sessions |-> IF s = 1 THEN <<Str(<<"a">>)>> ELSE <<>>]
  /\ results = [s \in Sessions |-> <<>>]
  /\ sentiment_counts = [s \in Sessions |-> ZeroSentimentCounts]
  /\ toxic_counts = [s \in Sessions |-> ZeroToxicCounts]
  /\ sentiment = [s \in Sessions |-> 0]
  /\ predictions = [s \in Sessions |-> <<>>]
  /\ toxic_score = [s \in Sessions |-> 0]
  /\ df_history = [s \in Sessions |-> NoFrame]
  /\ df_all = [s \in Sessions |-> NoFrame]
  /\ page = [s \in Sessions |-> IF s = 1 THEN {} ELSE {"info"}]

NextClassify == \E o \in WideOutcomes : AnalyzePost(1, o)

SpecClassify == InitClassify /\ [][NextClassify]_vars

\* The record of the post classified last.
LastRecord(s) == results[s][Len(results[s])]

\* C5: the label is Positive for a polarity above 0.2, Negative below -0.2
\* and Neutral from -0.2 to 0.2, both ends included; one label per post.
C5_SentimentThresholds ==
  \A s \in Sessions :
    results[s] # <<>> =>
      /\ sentiment[s] > 20 => LastRecord(s).sentiment_label = Positive
      /\ sentiment[s] < -20 => LastRecord(s).sentiment_label = Negative
      /\ sentiment[s] >= -20 /\ sentiment[s] <= 20 =>
           LastRecord(s).sentiment_label = Neutral
      /\ sentiment_counts[s].Positive + sentiment_counts[s].Negative
           + sentiment_counts[s].Neutral = Len(results[s])

\* A post of polarity exactly 0.2 was labelled Neutral.
C5_Witness ==
  /\ results[1] # <<>>
  /\ sentiment[1] = 20
  /\ LastRecord(1).sentiment_label = Neutral

\* The score the classifier gave the category toxic.
ScoreOfToxic(preds) ==
  LET i == CHOOSE j \in 1..Len(preds) : preds[j].label = "toxic"
  IN preds[i].score

\* C6: the post is marked toxic for a score of the category toxic above 0.5
\* and safe up to 0.5, whatever the other categories and their order.
C6_ToxicThreshold ==
  \A s \in Sessions :
    results[s] # <<>> =>
      /\ toxic_score[s] = ScoreOfToxic(predictions[s])
      /\ ScoreOfToxic(predictions[s]) > 500 =>
           /\ LastRecord(s).toxicity[1] = "U+26A0"
           /\ toxic_counts[s].Toxic = 1 /\ toxic_counts[s].Safe = 0
      /\ ScoreOfToxic(predictions[s]) <= 500 =>
           /\ LastRecord(s).toxicity[1] = "U+2705"
           /\ toxic_counts[s].Toxic = 0 /\ toxic_counts[s].Safe = 1

\* A post whose toxic score is exactly 0.5, listed after a category with a
\* higher score, was marked safe.
C6_Witness ==
  /\ results[1] # <<>>
  /\ predictions[1] = <<Pred("severe_toxic", 990), Pred("toxic", 500)>>
  /\ LastRecord(1).toxicity = <<"U+2705", " ", "S", "a", "f", "e", " ", "(",
                                "0", ".", "5", "0", ")">>

\* ------------------------------------------------------ two sessions at once
ClassifyRace(s) ==
  /\ pc[s] = "loop"
  /\ \E o \in RaceOutcomes : AnalyzePost(s, o)

NextRace ==
  \E s \in Sessions :
    \/ \E text \in RaceTexts : EditText(s, text)
    \/ ClickAnalyze(s)
    \/ Tab1(s)
    \/ ClassifyRace(s)
    \/ SaveLoad(s)
    \/ SaveWrite(s)
    \/ Tab2(s)

SpecRace == Init /\ [][NextRace]_vars

\* The history session s loaded is still what the file holds: no other
\* save came between its load and its write.
Fresh(s) == df_history[s].rows = ReadCsvRows(history_csv.rows)

\* What session s writes: the history it had loaded, then its batch.
WrittenBy(s) == ToCsvRows(df_history[s].rows) \o BatchTexts(results[s])

\* C9: a writer whose load was followed by another writer's save leaves the
\* file with the rows it had loaded and its own batch only (the last writer
\* wins, the save in between is lost); a writer whose save overlaps no
\* other leaves every row the file held, the other writer's batch among
\* them, followed by its own batch.
C9_LastWriterWins ==
  [][\A s \in Sessions :
       Writes(s) =>
         IF Fresh(s)
         THEN history_csv'.rows = history_csv.rows \o BatchTexts(results[s])
         ELSE /\ history_csv'.rows = WrittenBy(s)
              /\ Len(history_csv'.rows)
                   = Len(df_history[s].rows) + Len(results[s])]_vars

\* The part of C9 that is about the race alone, with the rows counted: the
\* writer that lost the race to load leaves the file with the rows it had
\* loaded and those of its batch, fewer than an append to the file would
\* give; a writer that overlaps no other adds the rows of its batch to all
\* the rows of the file.
LostUpdateOnRace ==
  [][\A s \in Sessions :
       Writes(s) =>
         /\ history_csv'.rows = WrittenBy(s)
         /\ Len(history_csv'.rows)
              = Len(df_history[s].rows) + Len(results[s])
         /\ Fresh(s) =>
              Len(history_csv'.rows)
                = Len(history_csv.rows) + Len(results[s])]_vars

\* Two writers had both loaded the one-row history before either wrote, and
\* both have written: the file holds two rows, not three.
LostUpdateReached ==
  /\ \A s \in Sessions : pc[s] = "tab2" /\ Len(df_history[s].rows) = 1
  /\ Len(history_csv.rows) = 2

====
